---- MODULE Spec2Model ----
(***************************************************************************)
(* Capture-and-relay pipeline of app.py: capture_first_m3u8 (browser       *)
(* capture with bounded retry), get_best_variant, rewrite_playlist, the    *)
(* /proxy_playlist cache, /segment and the tail of /get_m3u8.              *)
(*                                                                         *)
(* Text is a sequence of symbols.  A symbol is one character ("/", "+",    *)
(* "\n", ...) or one lexeme made only of characters that every function   *)
(* modelled here treats alike (".m3u8", ".ts", "#EXT-X-STREAM-INF:").      *)
(***************************************************************************)
EXTENDS Integers, Sequences, FiniteSets, TLC

VARIABLES
    \* get_best_match (pure function, SpecMatch)
    bmPc, bmTitle, bmResults, bmOut,
    \* rewrite_playlist (pure function, SpecRewrite)
    rwPc, rwUrl, rwText, rwLines, rwNewLines, rwOut,
    \* get_best_variant (pure function, SpecVariant)
    gvPc, gvUrl, gvBody, gvOut,
    \* capture_first_m3u8, one value per invocation (SpecCapture)
    cpPc, cpAttempt, cpCaptured, cpArmed, cpPw, cpBrowser, cpContext, cpPage,
    cpSel, cpClicked, cpPolls, cpExc, cpResult,
    \* history of an invocation: requests seen by the current session, sessions
    \* opened so far, whether any session saw a manifest request
    cpSeen, cpSessions, cpEverMatched,
    \* history of the current attempt: a request went by with no observer on
    \* the page, a selector of the loop matched an element
    cpMissed, cpMatched,
    \* the /get_m3u8 request that made the invocation: position, answer, and
    \* the locals title, season, episode, type_, vsrc_embed, iframe_src
    gmPc, gmStatus, gmBody,
    gmTitle, gmSeason, gmEpisode, gmType, gmEmbed, gmIframe,
    \* history: the stages the request has started
    gmStages,
    \* time.time() in seconds, _playlist_cache
    clock, cache,
    \* /proxy_playlist, one value per concurrent request slot
    ppPc, ppUrl, ppNow, ppBytes, ppStatus, ppBody,
    \* history: requests started, whether a slot's answer came from the cache
    ppStarted, ppHit,
    \* history: upstream fetches issued by /proxy_playlist so far, the number
    \* of the fetch a slot is in, the number of the fetch behind each entry
    ppIssued, ppFetchNo, cacheFetchNo,
    \* /segment
    sgPc, sgUrl, sgStatus, sgBody, sgLength,
    \* history: upstream requests of the current /segment request, what the
    \* last one returned, requests started
    sgFetches, sgFetched, sgStarted

bmVars == <<bmPc, bmTitle, bmResults, bmOut>>
rwVars == <<rwPc, rwUrl, rwText, rwLines, rwNewLines, rwOut>>
gvVars == <<gvPc, gvUrl, gvBody, gvOut>>
cpVars == <<cpPc, cpAttempt, cpCaptured, cpArmed, cpPw, cpBrowser, cpContext, cpPage,
           cpSel, cpClicked, cpPolls, cpExc, cpResult, cpSeen, cpSessions, cpEverMatched,
           cpMissed, cpMatched>>
gmLocals == <<gmTitle, gmSeason, gmEpisode, gmType, gmEmbed, gmIframe>>
gmVars == <<gmPc, gmStatus, gmBody, gmLocals, gmStages>>
ppVars == <<cache, ppPc, ppUrl, ppNow, ppBytes, ppStatus, ppBody, ppStarted, ppHit,
           ppIssued, ppFetchNo, cacheFetchNo>>
sgVars == <<sgPc, sgUrl, sgStatus, sgBody, sgLength, sgFetches, sgFetched, sgStarted>>
relayVars == <<clock, ppVars, sgVars>>
vars == <<bmVars, rwVars, gvVars, cpVars, gmVars, relayVars>>

None == <<"None">>

(***************************************************************************)
(* Bounds of the model.                                                    *)
(***************************************************************************)
MaxPlaylistLines == 3
MaxManifestLines == 4
\* Requests a page issues in one browser session.
MaxRequests == 2
\* The same, per session, when two invocations run at once.
MaxPairRequests == 1
\* Seconds the clock runs, /proxy_playlist and /segment requests made.
MaxClock == 6
MaxProxyRequests == 2
MaxSegmentRequests == 2
\* Results in a catalog answer.
MaxCandidates == 3

(***************************************************************************)
(* Text helpers.                                                           *)
(***************************************************************************)
NL == "\n"
SP == " "

Range(s) == {s[i] : i \in 1..Len(s)}

StartsWith(s, p) == Len(s) >= Len(p) /\ SubSeq(s, 1, Len(p)) = p

\* Least index i >= from with s[i] = c, or 0.
IndexFrom(s, c, from) ==
    LET hits == {i \in from..Len(s) : s[i] = c}
    IN IF hits = {} THEN 0 ELSE CHOOSE i \in hits : \A j \in hits : i <= j

\* Greatest index i with s[i] = c, or 0.
LastIndex(s, c) ==
    LET hits == {i \in 1..Len(s) : s[i] = c}
    IN IF hits = {} THEN 0 ELSE CHOOSE i \in hits : \A j \in hits : i >= j

\* str.split("\n")
RECURSIVE SplitNl(_)
SplitNl(text) ==
    LET k == IndexFrom(text, NL, 1)
    IN IF k = 0 THEN <<text>>
       ELSE <<SubSeq(text, 1, k - 1)>> \o SplitNl(SubSeq(text, k + 1, Len(text)))

\* str.splitlines(): no line for the empty text, none after a final newline.
splitlines(text) ==
    LET parts == SplitNl(text)
    IN IF parts[Len(parts)] = <<>> THEN SubSeq(parts, 1, Len(parts) - 1) ELSE parts

\* "\n".join(lines)
RECURSIVE JoinNl(_)
JoinNl(lines) ==
    IF lines = <<>> THEN <<>>
    ELSE IF Len(lines) = 1 THEN lines[1]
    ELSE lines[1] \o <<NL>> \o JoinNl(Tail(lines))

\* str.strip()
strip(s) ==
    LET keep == {i \in 1..Len(s) : s[i] # SP}
    IN IF keep = {} THEN <<>>
       ELSE SubSeq(s, CHOOSE i \in keep : \A j \in keep : i <= j,
                      CHOOSE i \in keep : \A j \in keep : i >= j)

DigitChars == <<"0", "1", "2", "3", "4", "5", "6", "7", "8", "9">>
IsDigit(c) == c \in Range(DigitChars)
DigitValue(c) == (CHOOSE i \in 1..10 : DigitChars[i] = c) - 1

\* str(n) for n >= 0
RECURSIVE IntToStr(_)
IntToStr(n) ==
    IF n < 10 THEN <<DigitChars[n + 1]>>
    ELSE IntToStr(n \div 10) \o <<DigitChars[(n % 10) + 1]>>

\* int(s) for a non-empty run of digits
RECURSIVE StrToInt(_)
StrToInt(s) ==
    IF Len(s) = 1 THEN DigitValue(s[1])
    ELSE 10 * StrToInt(SubSeq(s, 1, Len(s) - 1)) + DigitValue(s[Len(s)])

(***************************************************************************)
(* urllib.parse: quote_plus, unquote_plus, urljoin.                        *)
(***************************************************************************)
\* Characters quote_plus escapes, with their two hex digits.
Reserved == {"/", ":", "+", "%", "#", "?", "&", "="}
HexOf(c) ==
    CASE c = "/" -> <<"2", "F">>
      [] c = ":" -> <<"3", "A">>
      [] c = "+" -> <<"2", "B">>
      [] c = "%" -> <<"2", "5">>
      [] c = "#" -> <<"2", "3">>
      [] c = "?" -> <<"3", "F">>
      [] c = "&" -> <<"2", "6">>
      [] c = "=" -> <<"3", "D">>

RECURSIVE quote_plus_keep_plus(_)
quote_plus_keep_plus(s) ==
    IF s = <<>> THEN <<>>
    ELSE (IF s[1] = SP THEN <<"+">>
          ELSE IF s[1] \in Reserved \ {"+"} THEN <<"%">> \o HexOf(s[1])
          ELSE <<s[1]>>) \o quote_plus_keep_plus(Tail(s))

RECURSIVE quote_plus(_)
quote_plus(s) ==
    IF s = <<>> THEN <<>>
    ELSE (IF s[1] = SP THEN <<"+">>
          ELSE IF s[1] \in Reserved THEN <<"%">> \o HexOf(s[1])
          ELSE <<s[1]>>) \o quote_plus(Tail(s))

RECURSIVE unquote_plus(_)
unquote_plus(s) ==
    IF s = <<>> THEN <<>>
    ELSE IF s[1] = "+" THEN <<SP>> \o unquote_plus(Tail(s))
    ELSE IF /\ s[1] = "%"
            /\ Len(s) >= 3
            /\ \E c \in Reserved : HexOf(c) = <<s[2], s[3]>>
         THEN <<CHOOSE c \in Reserved : HexOf(c) = <<s[2], s[3]>> >>
              \o unquote_plus(SubSeq(s, 4, Len(s)))
    ELSE <<s[1]>> \o unquote_plus(Tail(s))

\* The scheme of an absolute URL (the symbol "http" of http://o/d/p): what
\* stands before the first ":".
SchemeEnd(u) == IndexFrom(u, ":", 1)
HasScheme(u) ==
    /\ SchemeEnd(u) > 1
    /\ \A i \in 1..(SchemeEnd(u) - 1) : u[i] \notin Reserved /\ u[i] # SP

\* urljoin(base, ref) for an absolute base scheme://host/path and a
\* reference without query, fragment or dot segments.
urljoin(base, ref) ==
    LET se    == SchemeEnd(base)
        \* first "/" after "scheme://"
        pathStart == IndexFrom(base, "/", se + 3)
        origin == IF pathStart = 0 THEN base ELSE SubSeq(base, 1, pathStart - 1)
        lastSlash == LastIndex(base, "/")
        dir   == IF pathStart = 0 THEN base \o <<"/">> ELSE SubSeq(base, 1, lastSlash)
    IN IF ref = <<>> THEN base
       ELSE IF HasScheme(ref) THEN ref
       ELSE IF StartsWith(ref, <<"/", "/">>) THEN SubSeq(base, 1, se) \o ref
       ELSE IF ref[1] = "/" THEN origin \o ref
       ELSE dir \o ref

(***************************************************************************)
(* rewrite_playlist (app.py 242-255).                                      *)
(***************************************************************************)
SEGMENT == "/segment?u="
SEQARG == "&i="

IsPassThrough(line) == strip(line) = <<>> \/ strip(line)[1] = "#"

proxied(url, line, seq) ==
    <<SEGMENT>> \o quote_plus(urljoin(url, strip(line))) \o <<SEQARG>> \o IntToStr(seq)

\* The loop of lines 246-254: new_lines after the lines given, starting at seq.
RECURSIVE RewriteLines(_, _, _)
RewriteLines(url, lines, seq) ==
    IF lines = <<>> THEN <<>>
    ELSE IF IsPassThrough(lines[1])
         THEN <<lines[1]>> \o RewriteLines(url, Tail(lines), seq)
         ELSE <<proxied(url, lines[1], seq)>> \o RewriteLines(url, Tail(lines), seq + 1)

rewrite_playlist(url, text) == JoinNl(RewriteLines(url, splitlines(text), 0))

(***************************************************************************)
(* get_best_variant (app.py 177-189).                                      *)
(***************************************************************************)
TAG == "#EXT-X-STREAM-INF:"
RES == "RESOLUTION="
M3U8 == ".m3u8"

\* re.findall(r'(#EXT-X-STREAM-INF:[^\n]+\n)([^\n]+\.m3u8)', text), scanning
\* from symbol `from` of line i: the tag with at least one more symbol on its
\* line, then the next line up to its last ".m3u8" (greedy), which needs a
\* symbol before it.  The scan resumes right after the match.
RECURSIVE FindVariants(_, _, _)
FindVariants(lines, i, from) ==
    IF i >= Len(lines) THEN <<>>
    ELSE LET k == IndexFrom(lines[i], TAG, from)
             e == LastIndex(lines[i + 1], M3U8)
         IN IF k # 0 /\ k < Len(lines[i]) /\ e >= 2
            THEN <<[inf |-> SubSeq(lines[i], k, Len(lines[i])) \o <<NL>>,
                    url |-> SubSeq(lines[i + 1], 1, e)]>>
                 \o FindVariants(lines, i + 1, e + 1)
            ELSE FindVariants(lines, i + 1, 1)

\* End of the run of digits that starts at s[from] (from - 1 when there is none).
DigitRunEnd(s, from) ==
    LET stops == {j \in from..Len(s) : ~IsDigit(s[j])}
    IN IF stops = {} THEN Len(s)
       ELSE (CHOOSE j \in stops : \A l \in stops : j <= l) - 1

\* re.search(r"RESOLUTION=(\d+)x(\d+)", inf): where the leftmost match starts
\* (0 when there is none).
ResolutionAt(inf, p) ==
    /\ inf[p] = RES
    /\ LET w == DigitRunEnd(inf, p + 1)
       IN /\ w >= p + 1
          /\ w + 1 <= Len(inf)
          /\ inf[w + 1] = "x"
          /\ DigitRunEnd(inf, w + 2) >= w + 2

ResolutionMatch(inf) ==
    LET hits == {p \in 1..Len(inf) : ResolutionAt(inf, p)}
    IN IF hits = {} THEN 0 ELSE CHOOSE p \in hits : \A q \in hits : p <= q

\* The key of max(): int(group(2)) of the match, else 0.
VariantKey(v) ==
    LET p == ResolutionMatch(v.inf)
    IN IF p = 0 THEN 0
       ELSE LET w == DigitRunEnd(v.inf, p + 1)
            IN StrToInt(SubSeq(v.inf, w + 2, DigitRunEnd(v.inf, w + 2)))

\* max(variants, key=...): the index kept when variants[i..] have been seen
\* with `best` the best so far; a later item wins only with a greater key.
RECURSIVE MaxLast(_, _, _)
MaxLast(variants, i, best) ==
    IF i > Len(variants) THEN best
    ELSE MaxLast(variants, i + 1,
                 IF VariantKey(variants[i]) >= VariantKey(variants[best]) THEN i ELSE best)

RECURSIVE MaxIndex(_, _, _)
MaxIndex(variants, i, best) ==
    IF i > Len(variants) THEN best
    ELSE MaxIndex(variants, i + 1,
                  IF VariantKey(variants[i]) > VariantKey(variants[best]) THEN i ELSE best)

get_best_variant_no_fallback(m3u8_url, body) ==
    LET variants == FindVariants(SplitNl(body), 1, 1)
    IN IF variants = <<>> THEN None
       ELSE urljoin(m3u8_url, variants[MaxIndex(variants, 1, 1)].url)

get_best_variant(m3u8_url, body) ==
    LET variants == FindVariants(SplitNl(body), 1, 1)
    IN IF variants = <<>> THEN m3u8_url
       ELSE urljoin(m3u8_url, variants[MaxIndex(variants, 1, 1)].url)

(***************************************************************************)
(* get_best_match (app.py 43-50) with rapidfuzz's process.extractOne and   *)
(* fuzz.token_sort_ratio.  A catalog result is a record (a JSON object);   *)
(* a score is the fraction num/den, compared without rounding.             *)
(***************************************************************************)
MatchThreshold == 60

\* The value None where a result record is expected.
NoneDict == [none |-> TRUE]

\* str.split(): the words between runs of spaces
RECURSIVE split(_)
split(s) ==
    IF s = <<>> THEN <<>>
    ELSE IF s[1] = SP THEN split(Tail(s))
    ELSE LET k == IndexFrom(s, SP, 1)
         IN IF k = 0 THEN <<s>>
            ELSE <<SubSeq(s, 1, k - 1)>> \o split(SubSeq(s, k + 1, Len(s)))

\* Order of the characters of titles.
Letters == <<"a", "b", "c", "d", "x", "y">>
Ord(c) == CHOOSE i \in 1..Len(Letters) : Letters[i] = c

\* u < v for two words
RECURSIVE WordLess(_, _)
WordLess(u, v) ==
    IF v = <<>> THEN FALSE
    ELSE IF u = <<>> THEN TRUE
    ELSE IF u[1] = v[1] THEN WordLess(Tail(u), Tail(v))
    ELSE Ord(u[1]) < Ord(v[1])

RECURSIVE InsertWord(_, _)
InsertWord(w, ws) ==
    IF ws = <<>> THEN <<w>>
    ELSE IF WordLess(w, ws[1]) THEN <<w>> \o ws
    ELSE <<ws[1]>> \o InsertWord(w, Tail(ws))

\* sorted(words)
RECURSIVE sorted(_)
sorted(ws) == IF ws = <<>> THEN <<>> ELSE InsertWord(ws[1], sorted(Tail(ws)))

\* " ".join(words)
RECURSIVE JoinSp(_)
JoinSp(ws) ==
    IF ws = <<>> THEN <<>>
    ELSE IF Len(ws) = 1 THEN ws[1]
    ELSE ws[1] \o <<SP>> \o JoinSp(Tail(ws))

\* Length of a longest common subsequence.
RECURSIVE LcsLen(_, _)
LcsLen(a, b) ==
    IF a = <<>> \/ b = <<>> THEN 0
    ELSE IF a[1] = b[1] THEN 1 + LcsLen(Tail(a), Tail(b))
    ELSE LET l == LcsLen(Tail(a), b)
             r == LcsLen(a, Tail(b))
         IN IF l >= r THEN l ELSE r

\* fuzz.ratio: the normalized Indel similarity times 100, that is
\* 100 * 2 * lcs / (len(a) + len(b)), and 100 for two empty strings.
ratio(a, b) ==
    IF Len(a) + Len(b) = 0 THEN [num |-> 100, den |-> 1]
    ELSE [num |-> 200 * LcsLen(a, b), den |-> Len(a) + Len(b)]

\* fuzz.token_sort_ratio: the ratio of the strings with their words sorted.
token_sort_ratio(s1, s2) == ratio(JoinSp(sorted(split(s1))), JoinSp(sorted(split(s2))))

ScoreGreater(x, y) == x.num * y.den > y.num * x.den
ScoreAtLeast(x, n) == x.num >= n * x.den
ScoreAbove(x, n) == x.num > n * x.den

\* process.extractOne(query, choices, scorer=...): the index of the best
\* choice seen in choices[i..], `best` being the best before; a later choice
\* wins only with a greater score.
RECURSIVE extractOne(_, _, _, _)
extractOne(query, choices, i, best) ==
    IF i > Len(choices) THEN best
    ELSE extractOne(query, choices, i + 1,
                    IF ScoreGreater(token_sort_ratio(query, choices[i]),
                                    token_sort_ratio(query, choices[best]))
                    THEN i ELSE best)

\* r["title"] if r["media_type"] == "movie" else r["name"]
NameOf(r) == IF r.media_type = "movie" THEN r.title ELSE r.name

\* The list comprehension of line 44 raises KeyError (or TypeError) on a
\* result without media_type, or without the title or name it needs.
IsWellFormed(r) ==
    /\ "media_type" \in DOMAIN r
    /\ IF r.media_type = "movie" THEN "title" \in DOMAIN r ELSE "name" \in DOMAIN r

MatchRaises(results) == \E i \in 1..Len(results) : ~IsWellFormed(results[i])

\* A get_best_match that accepts a score equal to the threshold.
get_best_match_inclusive(title, results) ==
    LET names == [i \in 1..Len(results) |-> NameOf(results[i])]
    IN IF names = <<>> THEN NoneDict
       ELSE LET idx == extractOne(title, names, 1, 1)
                score == token_sort_ratio(title, names[idx])
            IN IF score.num # 0 /\ ScoreAtLeast(score, MatchThreshold)
               THEN results[idx] ELSE NoneDict

\* get_best_match(title, results) for results that do not make it raise
get_best_match(title, results) ==
    LET names == [i \in 1..Len(results) |-> NameOf(results[i])]
    IN IF names = <<>> THEN NoneDict
       ELSE LET idx == extractOne(title, names, 1, 1)
                score == token_sort_ratio(title, names[idx])
            IN IF score.num # 0 /\ ScoreAbove(score, MatchThreshold)
               THEN results[idx] ELSE NoneDict

(***************************************************************************)
(* Inputs of the pure functions.                                           *)
(***************************************************************************)
SeqsUpTo(S, n) == UNION {[1..k -> S] : k \in 0..n}

PlaylistUrl == <<"http", ":", "/", "/", "o", "/", "d", "/", "p", M3U8>>

PlaylistLines ==
    { <<>>,
      <<SP>>,
      <<"#", "E">>,
      <<SP, "#", "E">>,
      <<"s", ".ts">>,
      <<SP, "a", "+", "b", SP>>,
      <<"/", "r", "%", "2", "F">>,
      <<"/", "/", "c", "/", "s", "&", "t">>,
      <<"http", ":", "/", "/", "c", "/", "s", SP, "t">> }

PlaylistTexts ==
    {JoinNl(ls) \o tail : ls \in SeqsUpTo(PlaylistLines, MaxPlaylistLines),
                          tail \in {<<>>, <<NL>>}}

ManifestUrl == <<"http", ":", "/", "/", "o", "/", "d", "/", "m", M3U8>>

ManifestLines ==
    { <<TAG, RES, "1", "x", "9">>,
      <<TAG, "B", RES, "2", "x", "1", "0">>,
      <<TAG, "B">>,
      <<TAG, RES, "x", "7">>,
      <<"a", M3U8>>,
      <<"/", "b", M3U8, "?", "t">>,
      <<"c", ".ts">>,
      <<>> }

ManifestBodies == {JoinNl(ls) : ls \in SeqsUpTo(ManifestLines, MaxManifestLines)}

\* Titles asked for, and results the catalog can list for them.
Title == <<"a", "b", SP, "c", "d">>
Titles == {Title, <<"x", "y">>}

Candidates ==
    { [id |-> 1, media_type |-> "movie", title |-> <<"c", "d", SP, "a", "b">>],
      [id |-> 2, media_type |-> "tv", name |-> <<"a", "b", SP, "c", "x">>],
      [id |-> 3, media_type |-> "movie", title |-> <<"a", "b", SP, "x", "y">>],
      [id |-> 4, media_type |-> "tv", name |-> <<"x", "y">>],
      [id |-> 5, media_type |-> "movie", title |-> <<"a", "x">>],
      [id |-> 6, media_type |-> "person", name |-> <<"c", "x", SP, SP, "a", "b">>] }

CandidateLists == SeqsUpTo(Candidates, MaxCandidates)

(***************************************************************************)
(* SpecMatch: get_best_match applied to every title and candidate list.    *)
(***************************************************************************)
BmIdle == bmPc = "idle" /\ bmTitle = <<>> /\ bmResults = <<>> /\ bmOut = NoneDict

RwIdle ==
    /\ rwPc = "idle" /\ rwUrl = <<>> /\ rwText = <<>>
    /\ rwLines = <<>> /\ rwNewLines = <<>> /\ rwOut = <<>>

GvIdle == gvPc = "idle" /\ gvUrl = <<>> /\ gvBody = <<>> /\ gvOut = <<>>

Invocations == {1, 2}

\* Request slots of /proxy_playlist, and the manifest URLs asked for.
Slots == {1, 2}
OtherPlaylistUrl == <<"http", ":", "/", "/", "o", "/", "q", M3U8>>
Urls == {PlaylistUrl, OtherPlaylistUrl}

\* The server after start-up: an empty cache, no request in progress.
RelayInit ==
    /\ clock = 0
    /\ cache = [u \in {} |-> None]
    /\ ppPc = [r \in Slots |-> "idle"]
    /\ ppUrl = [r \in Slots |-> <<>>]
    /\ ppNow = [r \in Slots |-> 0]
    /\ ppBytes = [r \in Slots |-> <<>>]
    /\ ppStatus = [r \in Slots |-> 0]
    /\ ppBody = [r \in Slots |-> <<>>]
    /\ ppStarted = 0
    /\ ppHit = [r \in Slots |-> FALSE]
    /\ ppIssued = 0
    /\ ppFetchNo = [r \in Slots |-> 0]
    /\ cacheFetchNo = [u \in {} |-> 0]
    /\ sgPc = "idle" /\ sgUrl = <<>> /\ sgStatus = 0 /\ sgBody = <<>>
    /\ sgLength = <<>> /\ sgFetches = 0 /\ sgFetched = <<>> /\ sgStarted = 0

\* The stages of get_m3u8 in the order of the code.
Stages == <<"match", "external", "iframe", "capture", "variant">>

\* The iframe URL of a request that is already at the capture stage.
IframeUrl == <<"https", ":", "/", "/", "h", "/", "p">>

\* Invocations in `started` are at the call of capture_first_m3u8 (line 825).
CpInit(started) ==
    /\ cpPc = [i \in Invocations |-> IF i \in started THEN "loop" ELSE "idle"]
    /\ cpAttempt = [i \in Invocations |-> 0]
    /\ cpCaptured = [i \in Invocations |-> None]
    /\ cpArmed = [i \in Invocations |-> FALSE]
    /\ cpPw = [i \in Invocations |-> FALSE]
    /\ cpBrowser = [i \in Invocations |-> FALSE]
    /\ cpContext = [i \in Invocations |-> FALSE]
    /\ cpPage = [i \in Invocations |-> FALSE]
    /\ cpSel = [i \in Invocations |-> 0]
    /\ cpClicked = [i \in Invocations |-> FALSE]
    /\ cpPolls = [i \in Invocations |-> 0]
    /\ cpExc = [i \in Invocations |-> FALSE]
    /\ cpResult = [i \in Invocations |-> None]
    /\ cpSeen = [i \in Invocations |-> <<>>]
    /\ cpSessions = [i \in Invocations |-> 0]
    /\ cpEverMatched = [i \in Invocations |-> FALSE]
    /\ cpMissed = [i \in Invocations |-> FALSE]
    /\ cpMatched = [i \in Invocations |-> FALSE]
    /\ gmPc = [i \in Invocations |-> IF i \in started THEN "capture" ELSE "idle"]
    /\ gmStatus = [i \in Invocations |-> 0]
    /\ gmBody = [i \in Invocations |-> <<>>]
    /\ gmTitle = [i \in Invocations |-> <<>>]
    /\ gmSeason = [i \in Invocations |-> <<>>]
    /\ gmEpisode = [i \in Invocations |-> <<>>]
    /\ gmType = [i \in Invocations |-> <<>>]
    /\ gmEmbed = [i \in Invocations |-> <<>>]
    /\ gmIframe = [i \in Invocations |-> IF i \in started THEN IframeUrl ELSE <<>>]
    /\ gmStages = [i \in Invocations |-> IF i \in started THEN SubSeq(Stages, 1, 4) ELSE <<>>]

CpIdle == CpInit({})

InitMatch ==
    /\ bmPc = "call"
    /\ bmTitle \in Titles
    /\ bmResults \in CandidateLists
    /\ bmOut = NoneDict
    /\ RwIdle /\ GvIdle /\ CpIdle /\ RelayInit

BestMatchCall ==
    /\ bmPc = "call"
    /\ bmOut' = get_best_match(bmTitle, bmResults)
    /\ bmPc' = "done"
    /\ UNCHANGED <<bmTitle, bmResults, rwVars, gvVars, cpVars, gmVars, relayVars>>

SpecMatch == InitMatch /\ [][BestMatchCall]_vars

(***************************************************************************)
(* SpecRewrite: rewrite_playlist applied to every playlist text.           *)
(***************************************************************************)
InitRewrite ==
    /\ rwPc = "call"
    /\ rwUrl = PlaylistUrl
    /\ rwText \in PlaylistTexts
    /\ rwLines = <<>> /\ rwNewLines = <<>> /\ rwOut = <<>>
    /\ BmIdle /\ GvIdle /\ CpIdle /\ RelayInit

RewriteCall ==
    /\ rwPc = "call"
    /\ rwLines' = splitlines(rwText)
    /\ rwNewLines' = RewriteLines(rwUrl, splitlines(rwText), 0)
    /\ rwOut' = rewrite_playlist(rwUrl, rwText)
    /\ rwPc' = "done"
    /\ UNCHANGED <<rwUrl, rwText, bmVars, gvVars, cpVars, gmVars, relayVars>>

SpecRewrite == InitRewrite /\ [][RewriteCall]_vars

(***************************************************************************)
(* SpecVariant: get_best_variant applied to every manifest body.           *)
(***************************************************************************)
InitVariant ==
    /\ gvPc = "call"
    /\ gvUrl = ManifestUrl
    /\ gvBody \in ManifestBodies
    /\ gvOut = <<>>
    /\ BmIdle /\ RwIdle /\ CpIdle /\ RelayInit

VariantCall ==
    /\ gvPc = "call"
    /\ gvOut' = get_best_variant(gvUrl, gvBody)
    /\ gvPc' = "done"
    /\ UNCHANGED <<gvUrl, gvBody, bmVars, rwVars, cpVars, gmVars, relayVars>>

SpecVariant == InitVariant /\ [][VariantCall]_vars

(***************************************************************************)
(* capture_first_m3u8 (app.py 122-175) and the end of get_m3u8 (825-834).  *)
(* Every Playwright call is one step; a call that can raise has a step     *)
(* for each outcome.                                                       *)
(***************************************************************************)
Retries == 3
PollIterations == 30
Selectors == <<"button.vjs-play-control", ".jw-icon-play", ".play-btn", "video">>

\* URLs of the requests a page can issue.
RequestUrls ==
    { <<"http", ":", "/", "/", "c", "/", "a", M3U8>>,
      <<"http", ":", "/", "/", "c", "/", "b", M3U8, "?", "k">>,
      <<"http", ":", "/", "/", "c", "/", "x", ".js">> }

\* The manifest each page asks for when two invocations run at once.
PairRequestUrl ==
    [i \in {1, 2} |-> IF i = 1 THEN <<"http", ":", "/", "/", "c", "/", "a", M3U8>>
                               ELSE <<"http", ":", "/", "/", "e", "/", "a", M3U8>>]

\* Manifest bodies the captured URL can serve to get_best_variant.
CapturedManifests ==
    { <<"#", "E">>,
      JoinNl(<< <<TAG, RES, "1", "x", "9">>, <<"v", M3U8>> >>) }

ErrorPage == <<"Internal Server Error">>

\* What data.get("results", []) can be: lists of well-formed results, the
\* empty list, and lists with a result that lacks media_type or name.
SearchResults ==
    { <<>>,
      <<[id |-> 1, media_type |-> "movie", title |-> <<"c", "d", SP, "a", "b">>]>>,
      <<[id |-> 3, media_type |-> "movie", title |-> <<"a", "b", SP, "x", "y">>],
        [id |-> 2, media_type |-> "tv", name |-> <<"a", "b", SP, "c", "x">>]>>,
      <<[id |-> 3, media_type |-> "movie", title |-> <<"a", "b", SP, "x", "y">>]>>,
      <<[id |-> 7, title |-> <<"a", "b", SP, "c", "d">>]>>,
      <<[id |-> 1, media_type |-> "movie", title |-> <<"c", "d", SP, "a", "b">>],
        [id |-> 8, media_type |-> "tv", title |-> <<"a", "b">>]>> }

\* Bodies of the external_ids answer.
ExternalIds ==
    { [id |-> 1, imdb_id |-> <<"tt1">>],
      [id |-> 1, imdb_id |-> None],
      [id |-> 1] }

\* Embed pages.
EmbedPages ==
    { <<"<html>", "<body>">>,
      <<"<html>", "<iframe", " ", "id=", "\"", "p", "\"", ">">>,
      <<"<html>", "<iframe", " ", "id=", "\"", "p", "\"", " ", "src=", "\"",
        "/", "/", "h", "/", "p", "\"", ">">>,
      <<"<iframe", " ", "src=", "'", "/", "p", "'", ">">> }

Upd(f, i, v) == [f EXCEPT ![i] = v]

\* for attempt in range(1, retries + 1), and the return None after the loop
CpLoop(i) ==
    /\ cpPc[i] = "loop"
    /\ IF cpAttempt[i] < Retries
       THEN /\ cpAttempt' = Upd(cpAttempt, i, cpAttempt[i] + 1)
            /\ cpPc' = Upd(cpPc, i, "enter")
            /\ UNCHANGED cpResult
       ELSE /\ cpResult' = Upd(cpResult, i, None)
            /\ cpPc' = Upd(cpPc, i, "returned")
            /\ UNCHANGED cpAttempt
    /\ UNCHANGED <<cpCaptured, cpArmed, cpPw, cpBrowser, cpContext, cpPage, cpSel, cpClicked,
                   cpPolls, cpExc, cpSeen, cpMissed, cpMatched, cpSessions, cpEverMatched>>
    /\ UNCHANGED <<bmVars, rwVars, gvVars, gmVars, relayVars>>

\* with sync_playwright() as p:
CpEnter(i) ==
    /\ cpPc[i] = "enter"
    /\ cpPw' = Upd(cpPw, i, TRUE)
    /\ cpPc' = Upd(cpPc, i, "launch")
    /\ UNCHANGED <<cpAttempt, cpCaptured, cpArmed, cpBrowser, cpContext, cpPage, cpSel,
                   cpClicked, cpPolls, cpExc, cpResult, cpSeen, cpMissed, cpMatched,
                   cpSessions, cpEverMatched>>
    /\ UNCHANGED <<bmVars, rwVars, gvVars, gmVars, relayVars>>

\* An exception no handler of the function catches: it leaves the with block.
CpRaise(i) ==
    /\ cpExc' = Upd(cpExc, i, TRUE)
    /\ cpPc' = Upd(cpPc, i, "exit")

\* browser = p.webkit.launch()
CpLaunch(i) ==
    /\ cpPc[i] = "launch"
    /\ \/ /\ cpBrowser' = Upd(cpBrowser, i, TRUE)
          /\ cpSessions' = Upd(cpSessions, i, cpSessions[i] + 1)
          /\ cpPc' = Upd(cpPc, i, "new_context")
          /\ UNCHANGED cpExc
       \/ /\ CpRaise(i)
          /\ UNCHANGED <<cpBrowser, cpSessions>>
    /\ UNCHANGED <<cpAttempt, cpCaptured, cpArmed, cpPw, cpContext, cpPage, cpSel, cpClicked,
                   cpPolls, cpResult, cpSeen, cpMissed, cpMatched, cpEverMatched>>
    /\ UNCHANGED <<bmVars, rwVars, gvVars, gmVars, relayVars>>

\* context = browser.new_context()
CpNewContext(i) ==
    /\ cpPc[i] = "new_context"
    /\ \/ /\ cpContext' = Upd(cpContext, i, TRUE)
          /\ cpPc' = Upd(cpPc, i, "new_page")
          /\ UNCHANGED cpExc
       \/ /\ CpRaise(i)
          /\ UNCHANGED cpContext
    /\ UNCHANGED <<cpAttempt, cpCaptured, cpArmed, cpPw, cpBrowser, cpPage, cpSel, cpClicked,
                   cpPolls, cpResult, cpSeen, cpMissed, cpMatched, cpSessions, cpEverMatched>>
    /\ UNCHANGED <<bmVars, rwVars, gvVars, gmVars, relayVars>>

\* page = context.new_page()
CpNewPage(i) ==
    /\ cpPc[i] = "new_page"
    /\ \/ /\ cpPage' = Upd(cpPage, i, TRUE)
          /\ cpPc' = Upd(cpPc, i, "arm")
          /\ UNCHANGED cpExc
       \/ /\ CpRaise(i)
          /\ UNCHANGED cpPage
    /\ UNCHANGED <<cpAttempt, cpCaptured, cpArmed, cpPw, cpBrowser, cpContext, cpSel,
                   cpClicked, cpPolls, cpResult, cpSeen, cpMissed, cpMatched, cpSessions,
                   cpEverMatched>>
    /\ UNCHANGED <<bmVars, rwVars, gvVars, gmVars, relayVars>>

\* The attempt goes on to navigate without page.on("request", on_request).
CpArmNoRegister(i) ==
    /\ cpPc[i] = "arm"
    /\ cpCaptured' = Upd(cpCaptured, i, None)
    /\ cpSeen' = Upd(cpSeen, i, <<>>)
    /\ cpPc' = Upd(cpPc, i, "goto")
    /\ UNCHANGED <<cpAttempt, cpArmed, cpPw, cpBrowser, cpContext, cpPage, cpSel, cpClicked,
                   cpPolls, cpExc, cpResult, cpMissed, cpMatched, cpSessions, cpEverMatched>>
    /\ UNCHANGED <<bmVars, rwVars, gvVars, gmVars, relayVars>>

\* captured = {"url": None}; page.on("request", on_request)
CpArm(i) ==
    /\ cpPc[i] = "arm"
    /\ cpCaptured' = Upd(cpCaptured, i, None)
    /\ cpSeen' = Upd(cpSeen, i, <<>>)
    /\ cpArmed' = Upd(cpArmed, i, TRUE)
    /\ cpPc' = Upd(cpPc, i, "goto")
    /\ UNCHANGED <<cpAttempt, cpPw, cpBrowser, cpContext, cpPage, cpSel, cpClicked, cpPolls,
                   cpExc, cpResult, cpMissed, cpMatched, cpSessions, cpEverMatched>>
    /\ UNCHANGED <<bmVars, rwVars, gvVars, gmVars, relayVars>>

\* on_request(req), lines 131-135: the body of the callback.
OnRequestOverwrite(captured, url) == IF M3U8 \in Range(url) THEN url ELSE captured

OnRequestAny(captured, url) == IF captured = None THEN url ELSE captured

on_request(captured, url) ==
    IF M3U8 \in Range(url) /\ captured = None THEN url ELSE captured

\* The positions at which the function is inside a Playwright call on a live
\* page, which is when the page's request events reach the callbacks
\* registered on it.
InPageCall == {"goto", "query", "click", "fallback", "wait", "ctx_close"}

\* Both invocations are running.
IsPair == \A j \in Invocations : cpPc[j] # "idle"

\* The requests the page of invocation i can issue, and how many of them in
\* one session.  When both invocations run, each page asks for its own
\* manifest.
RequestUrlsOf(i) == IF IsPair THEN {PairRequestUrl[i]} ELSE RequestUrls

RequestsLeft(i) == Len(cpSeen[i]) < (IF IsPair THEN MaxPairRequests ELSE MaxRequests)

\* A request event that reaches the callback of every invocation.
ObserveRequestShared(i) ==
    /\ cpPc[i] \in InPageCall
    /\ cpPage[i]
    /\ RequestsLeft(i)
    /\ \E url \in RequestUrlsOf(i) :
          /\ cpCaptured' = [j \in Invocations |->
                               IF cpArmed[j] THEN on_request(cpCaptured[j], url)
                               ELSE cpCaptured[j]]
          /\ cpSeen' = Upd(cpSeen, i, Append(cpSeen[i], url))
          /\ cpEverMatched' = Upd(cpEverMatched, i, cpEverMatched[i] \/ M3U8 \in Range(url))
    /\ UNCHANGED <<cpPc, cpAttempt, cpArmed, cpPw, cpBrowser, cpContext, cpPage, cpSel,
                   cpClicked, cpPolls, cpExc, cpResult, cpMissed, cpMatched, cpSessions>>
    /\ UNCHANGED <<bmVars, rwVars, gvVars, gmVars, relayVars>>

\* The page of invocation i issues a request: on_request runs when it is
\* registered on the page, otherwise nobody sees the request.
ObserveRequest(i) ==
    /\ cpPc[i] \in InPageCall
    /\ cpPage[i]
    /\ RequestsLeft(i)
    /\ \E url \in RequestUrlsOf(i) :
          IF cpArmed[i]
          THEN /\ cpCaptured' = Upd(cpCaptured, i, on_request(cpCaptured[i], url))
               /\ cpSeen' = Upd(cpSeen, i, Append(cpSeen[i], url))
               /\ cpEverMatched' = Upd(cpEverMatched, i,
                                        cpEverMatched[i] \/ M3U8 \in Range(url))
               /\ UNCHANGED cpMissed
          ELSE /\ cpMissed' = Upd(cpMissed, i, TRUE)
               /\ UNCHANGED <<cpCaptured, cpSeen, cpEverMatched>>
    /\ UNCHANGED <<cpPc, cpAttempt, cpArmed, cpPw, cpBrowser, cpContext, cpPage, cpSel,
                   cpClicked, cpPolls, cpExc, cpResult, cpMatched, cpSessions>>
    /\ UNCHANGED <<bmVars, rwVars, gvVars, gmVars, relayVars>>

\* try: page.goto(page_url, wait_until="load", timeout=30000)
\* The navigation succeeds (then lines 144-145), or it fails or times out and
\* the except clause is entered.
CpGoto(i) ==
    /\ cpPc[i] = "goto"
    /\ \/ /\ cpSel' = Upd(cpSel, i, 1)
          /\ cpClicked' = Upd(cpClicked, i, FALSE)
          /\ cpPc' = Upd(cpPc, i, "query")
       \/ /\ cpPc' = Upd(cpPc, i, "nav_error")
          /\ UNCHANGED <<cpSel, cpClicked>>
    /\ UNCHANGED <<cpAttempt, cpCaptured, cpArmed, cpPw, cpBrowser, cpContext, cpPage,
                   cpPolls, cpExc, cpResult, cpSeen, cpMissed, cpMatched, cpSessions,
                   cpEverMatched>>
    /\ UNCHANGED <<bmVars, rwVars, gvVars, gmVars, relayVars>>

\* An except clause that raises the navigation error again.
CpGotoExceptReraise(i) ==
    /\ cpPc[i] = "nav_error"
    /\ CpRaise(i)
    /\ UNCHANGED <<cpAttempt, cpCaptured, cpArmed, cpPw, cpBrowser, cpContext, cpPage, cpSel,
                   cpClicked, cpPolls, cpResult, cpSeen, cpMissed, cpMatched, cpSessions,
                   cpEverMatched>>
    /\ UNCHANGED <<bmVars, rwVars, gvVars, gmVars, relayVars>>

\* except Exception as e: debug(...)      then lines 144-145
CpGotoExcept(i) ==
    /\ cpPc[i] = "nav_error"
    /\ cpSel' = Upd(cpSel, i, 1)
    /\ cpClicked' = Upd(cpClicked, i, FALSE)
    /\ cpPc' = Upd(cpPc, i, "query")
    /\ UNCHANGED <<cpAttempt, cpCaptured, cpArmed, cpPw, cpBrowser, cpContext, cpPage,
                   cpPolls, cpExc, cpResult, cpSeen, cpMissed, cpMatched, cpSessions,
                   cpEverMatched>>
    /\ UNCHANGED <<bmVars, rwVars, gvVars, gmVars, relayVars>>

\* The `continue` of the selector loop, and the end of the loop.
CpNextSelector(i) ==
    IF cpSel[i] < Len(Selectors)
    THEN /\ cpSel' = Upd(cpSel, i, cpSel[i] + 1)
         /\ cpPc' = Upd(cpPc, i, "query")
    ELSE /\ cpPc' = Upd(cpPc, i, "if_clicked")
         /\ UNCHANGED cpSel

\* el = page.query_selector(sel): an element (recorded in cpMatched), None,
\* or an exception (caught: continue)
CpQuery(i) ==
    /\ cpPc[i] = "query"
    /\ \/ /\ cpPc' = Upd(cpPc, i, "click")
          /\ cpMatched' = Upd(cpMatched, i, TRUE)
          /\ UNCHANGED cpSel
       \/ /\ CpNextSelector(i)
          /\ UNCHANGED cpMatched
    /\ UNCHANGED <<cpAttempt, cpCaptured, cpArmed, cpPw, cpBrowser, cpContext, cpPage,
                   cpClicked, cpPolls, cpExc, cpResult, cpSeen, cpMissed, cpSessions,
                   cpEverMatched>>
    /\ UNCHANGED <<bmVars, rwVars, gvVars, gmVars, relayVars>>

\* el.click(); clicked = True; break     or an exception (caught: continue)
CpClick(i) ==
    /\ cpPc[i] = "click"
    /\ \/ /\ cpClicked' = Upd(cpClicked, i, TRUE)
          /\ cpPc' = Upd(cpPc, i, "if_clicked")
          /\ UNCHANGED cpSel
       \/ /\ CpNextSelector(i)
          /\ UNCHANGED cpClicked
    /\ UNCHANGED <<cpAttempt, cpCaptured, cpArmed, cpPw, cpBrowser, cpContext, cpPage,
                   cpPolls, cpExc, cpResult, cpSeen, cpMissed, cpMatched, cpSessions,
                   cpEverMatched>>
    /\ UNCHANGED <<bmVars, rwVars, gvVars, gmVars, relayVars>>

\* if not clicked: (line 156).  sel, el and clicked are not read after this
\* line and are dropped here.
CpIfNotClicked(i) ==
    /\ cpPc[i] = "if_clicked"
    /\ IF cpClicked[i]
       THEN /\ cpPc' = Upd(cpPc, i, "poll")
            /\ cpMatched' = Upd(cpMatched, i, FALSE)
       ELSE /\ cpPc' = Upd(cpPc, i, "fallback")
            /\ UNCHANGED cpMatched
    /\ cpSel' = Upd(cpSel, i, 0)
    /\ cpClicked' = Upd(cpClicked, i, FALSE)
    /\ cpPolls' = Upd(cpPolls, i, 0)
    /\ UNCHANGED <<cpAttempt, cpCaptured, cpArmed, cpPw, cpBrowser, cpContext, cpPage, cpExc,
                   cpResult, cpSeen, cpMissed, cpSessions, cpEverMatched>>
    /\ UNCHANGED <<bmVars, rwVars, gvVars, gmVars, relayVars>>

\* try: page.mouse.click(640, 360) except Exception: pass
CpFallback(i) ==
    /\ cpPc[i] = "fallback"
    /\ cpMatched' = Upd(cpMatched, i, FALSE)
    /\ cpPc' = Upd(cpPc, i, "poll")
    /\ UNCHANGED <<cpAttempt, cpCaptured, cpArmed, cpPw, cpBrowser, cpContext, cpPage, cpSel,
                   cpClicked, cpPolls, cpExc, cpResult, cpSeen, cpMissed, cpSessions,
                   cpEverMatched>>
    /\ UNCHANGED <<bmVars, rwVars, gvVars, gmVars, relayVars>>

\* A polling loop that does not look at the slot.
CpPollNoBreak(i) ==
    /\ cpPc[i] = "poll"
    /\ IF cpPolls[i] < PollIterations
       THEN /\ cpPc' = Upd(cpPc, i, "wait")
            /\ UNCHANGED cpPolls
       ELSE /\ cpPc' = Upd(cpPc, i, "ctx_close")
            /\ cpPolls' = Upd(cpPolls, i, 0)
    /\ UNCHANGED <<cpAttempt, cpCaptured, cpArmed, cpPw, cpBrowser, cpContext, cpPage, cpSel,
                   cpClicked, cpExc, cpResult, cpSeen, cpMissed, cpMatched, cpSessions,
                   cpEverMatched>>
    /\ UNCHANGED <<bmVars, rwVars, gvVars, gmVars, relayVars>>

\* for _ in range(30): if captured["url"]: break
\* The loop counter is dropped when the loop is left.
CpPoll(i) ==
    /\ cpPc[i] = "poll"
    /\ IF cpPolls[i] < PollIterations /\ cpCaptured[i] = None
       THEN /\ cpPc' = Upd(cpPc, i, "wait")
            /\ UNCHANGED cpPolls
       ELSE /\ cpPc' = Upd(cpPc, i, "ctx_close")
            /\ cpPolls' = Upd(cpPolls, i, 0)
    /\ UNCHANGED <<cpAttempt, cpCaptured, cpArmed, cpPw, cpBrowser, cpContext, cpPage, cpSel,
                   cpClicked, cpExc, cpResult, cpSeen, cpMissed, cpMatched, cpSessions,
                   cpEverMatched>>
    /\ UNCHANGED <<bmVars, rwVars, gvVars, gmVars, relayVars>>

\* page.wait_for_timeout(500); the loop counter is dropped when it raises
CpWait(i) ==
    /\ cpPc[i] = "wait"
    /\ \/ /\ cpPolls' = Upd(cpPolls, i, cpPolls[i] + 1)
          /\ cpPc' = Upd(cpPc, i, "poll")
          /\ UNCHANGED cpExc
       \/ /\ CpRaise(i)
          /\ cpPolls' = Upd(cpPolls, i, 0)
    /\ UNCHANGED <<cpAttempt, cpCaptured, cpArmed, cpPw, cpBrowser, cpContext, cpPage, cpSel,
                   cpClicked, cpResult, cpSeen, cpMissed, cpMatched, cpSessions,
                   cpEverMatched>>
    /\ UNCHANGED <<bmVars, rwVars, gvVars, gmVars, relayVars>>

\* context.close()
CpContextClose(i) ==
    /\ cpPc[i] = "ctx_close"
    /\ cpContext' = Upd(cpContext, i, FALSE)
    /\ cpPage' = Upd(cpPage, i, FALSE)
    /\ cpPc' = Upd(cpPc, i, "br_close")
    /\ UNCHANGED <<cpAttempt, cpCaptured, cpArmed, cpPw, cpBrowser, cpSel, cpClicked,
                   cpPolls, cpExc, cpResult, cpSeen, cpMissed, cpMatched, cpSessions,
                   cpEverMatched>>
    /\ UNCHANGED <<bmVars, rwVars, gvVars, gmVars, relayVars>>

\* browser.close()
CpBrowserClose(i) ==
    /\ cpPc[i] = "br_close"
    /\ cpBrowser' = Upd(cpBrowser, i, FALSE)
    /\ cpPc' = Upd(cpPc, i, "check")
    /\ UNCHANGED <<cpAttempt, cpCaptured, cpArmed, cpPw, cpContext, cpPage, cpSel, cpClicked,
                   cpPolls, cpExc, cpResult, cpSeen, cpMissed, cpMatched, cpSessions,
                   cpEverMatched>>
    /\ UNCHANGED <<bmVars, rwVars, gvVars, gmVars, relayVars>>

\* if captured["url"]: return captured["url"]
CpCheck(i) ==
    /\ cpPc[i] = "check"
    /\ cpResult' = Upd(cpResult, i, cpCaptured[i])
    /\ cpPc' = Upd(cpPc, i, "exit")
    /\ UNCHANGED <<cpAttempt, cpCaptured, cpArmed, cpPw, cpBrowser, cpContext, cpPage, cpSel,
                   cpClicked, cpPolls, cpExc, cpSeen, cpMissed, cpMatched, cpSessions,
                   cpEverMatched>>
    /\ UNCHANGED <<bmVars, rwVars, gvVars, gmVars, relayVars>>

\* An attempt loop that goes on after a capture.
AfterExitRetryAll(i) == IF cpExc[i] THEN "raised" ELSE "loop"

\* Where the function goes on leaving the with block.
AfterExit(i) ==
    IF cpExc[i] THEN "raised" ELSE IF cpResult[i] # None THEN "returned" ELSE "loop"

\* Leaving the with block without stopping Playwright.
CpExitNoStop(i) ==
    /\ cpPc[i] = "exit"
    /\ cpPc' = Upd(cpPc, i, AfterExit(i))
    /\ UNCHANGED <<cpAttempt, cpCaptured, cpArmed, cpPw, cpBrowser, cpContext, cpPage, cpSel,
                   cpClicked, cpPolls, cpExc, cpResult, cpSeen, cpMissed, cpMatched,
                   cpSessions, cpEverMatched>>
    /\ UNCHANGED <<bmVars, rwVars, gvVars, gmVars, relayVars>>

\* Leaving `with sync_playwright() as p:` (by return, by falling out of the
\* block or by an exception): Playwright is stopped, and with it every
\* browser, context and page launched through it.
CpExit(i) ==
    /\ cpPc[i] = "exit"
    /\ cpPw' = Upd(cpPw, i, FALSE)
    /\ cpBrowser' = Upd(cpBrowser, i, FALSE)
    /\ cpContext' = Upd(cpContext, i, FALSE)
    /\ cpPage' = Upd(cpPage, i, FALSE)
    /\ cpArmed' = Upd(cpArmed, i, FALSE)
    /\ cpPc' = Upd(cpPc, i, AfterExit(i))
    /\ UNCHANGED <<cpAttempt, cpCaptured, cpSel, cpClicked, cpPolls, cpExc, cpResult, cpSeen,
                   cpMissed, cpMatched, cpSessions, cpEverMatched>>
    /\ UNCHANGED <<bmVars, rwVars, gvVars, gmVars, relayVars>>

\* A return of get_m3u8; its locals go with it.
GmReturn(i, status, body) ==
    /\ gmStatus' = Upd(gmStatus, i, status)
    /\ gmBody' = Upd(gmBody, i, body)
    /\ gmPc' = Upd(gmPc, i, "done")
    /\ gmTitle' = Upd(gmTitle, i, <<>>)
    /\ gmSeason' = Upd(gmSeason, i, <<>>)
    /\ gmEpisode' = Upd(gmEpisode, i, <<>>)
    /\ gmType' = Upd(gmType, i, <<>>)
    /\ gmEmbed' = Upd(gmEmbed, i, <<>>)
    /\ gmIframe' = Upd(gmIframe, i, <<>>)
    /\ UNCHANGED gmStages

\* An exception that leaves the handler: Flask answers 500 with an error page.
GmUnhandled(i) == GmReturn(i, 500, ErrorPage)

\* Lines 782-790: the arguments; 400 without a title; search_tmdb(title)
\* issues its request (line 34, timeout=REQUEST_TIMEOUT).
GmBegin(i) ==
    /\ gmPc[i] = "begin"
    /\ \E title \in {<<>>, Title}, season \in {<<>>, <<"1">>}, episode \in {<<>>, <<"2">>} :
          IF title = <<>>
          THEN GmReturn(i, 400, <<>>)
          ELSE /\ gmTitle' = Upd(gmTitle, i, title)
               /\ gmSeason' = Upd(gmSeason, i, season)
               /\ gmEpisode' = Upd(gmEpisode, i, episode)
               /\ gmStages' = Upd(gmStages, i, <<"match">>)
               /\ gmPc' = Upd(gmPc, i, "search")
               /\ UNCHANGED <<gmStatus, gmBody, gmType, gmEmbed, gmIframe>>
    /\ UNCHANGED <<bmVars, rwVars, gvVars, cpVars, relayVars>>

\* The request of search_tmdb ends (lines 34-41), then lines 791-807.
\* It raises (connection error, timeout, r.json() on a body that is not
\* JSON): nothing catches it.  Or it returns data.get("results", []):
\* get_best_match raises on a malformed result, returns None (404), or
\* returns best; then type_ = best.get("media_type", "movie").lower() and
\* requests.get(external_url) is issued (line 807, no timeout argument).
GmSearchReturn(i) ==
    /\ gmPc[i] = "search"
    /\ \/ GmUnhandled(i)
       \/ \E results \in SearchResults :
             IF MatchRaises(results)
             THEN GmUnhandled(i)
             ELSE LET best == get_best_match(gmTitle[i], results)
                  IN IF best = NoneDict
                     THEN GmReturn(i, 404, <<>>)
                     ELSE /\ gmType' = Upd(gmType, i, best.media_type)
                          /\ gmTitle' = Upd(gmTitle, i, <<>>)
                          /\ gmStages' = Upd(gmStages, i, Append(gmStages[i], "external"))
                          /\ gmPc' = Upd(gmPc, i, "external")
                          /\ UNCHANGED <<gmStatus, gmBody, gmSeason, gmEpisode, gmEmbed,
                                         gmIframe>>
    /\ UNCHANGED <<bmVars, rwVars, gvVars, cpVars, relayVars>>

\* Lines 815-818: vsrc_embed
EmbedUrl(type_, imdb_id, season, episode) ==
    IF type_ = "tv" /\ season # <<>> /\ episode # <<>>
    THEN <<"https", ":", "/", "/", "vsrc.su", "/", "embed", "/", "tv", "?", "imdb", "=">>
         \o imdb_id \o <<"&", "season", "=">> \o season
         \o <<"&", "episode", "=">> \o episode \o <<"&", "dts", "=", "dd">>
    ELSE <<"https", ":", "/", "/", "vsrc.su", "/", "embed", "/", "movie", "?", "imdb", "=">>
         \o imdb_id \o <<"&", "dts", "=", "dd">>

\* external_resp.get("imdb_id")
ImdbIdOf(external_resp) ==
    IF "imdb_id" \in DOMAIN external_resp THEN external_resp.imdb_id ELSE None

\* The request of line 807 ends: it raises (connection error, a body that is
\* not JSON), or imdb_id is missing (404), or vsrc_embed is built and
\* get_player_iframe_src issues its request (line 109, timeout=10).
GmExternalReturn(i) ==
    /\ gmPc[i] = "external"
    /\ \/ GmUnhandled(i)
       \/ \E external_resp \in ExternalIds :
             LET imdb_id == ImdbIdOf(external_resp)
             IN IF imdb_id = None \/ imdb_id = <<>>
                THEN GmReturn(i, 404, <<>>)
                ELSE /\ gmEmbed' = Upd(gmEmbed, i,
                                       EmbedUrl(gmType[i], imdb_id, gmSeason[i], gmEpisode[i]))
                     /\ gmType' = Upd(gmType, i, <<>>)
                     /\ gmSeason' = Upd(gmSeason, i, <<>>)
                     /\ gmEpisode' = Upd(gmEpisode, i, <<>>)
                     /\ gmStages' = Upd(gmStages, i, Append(gmStages[i], "iframe"))
                     /\ gmPc' = Upd(gmPc, i, "iframe")
                     /\ UNCHANGED <<gmStatus, gmBody, gmTitle, gmIframe>>
    /\ UNCHANGED <<bmVars, rwVars, gvVars, cpVars, relayVars>>

IFRAME == "<iframe"
SRC == "src="
QUOTE == "\""
Quotes == {QUOTE, "'"}

\* re.search(r'<iframe[^>]+src=["\']([^"\']+)["\']', html) with the tag at k
\* and src= at p: at least one symbol between them and none of them ">", a
\* quote, at least one symbol that is no quote, and a quote somewhere later.
IframeMatch(html, k, p) ==
    /\ html[k] = IFRAME
    /\ p >= k + 2
    /\ html[p] = SRC
    /\ \A j \in (k + 1)..(p - 1) : html[j] # ">"
    /\ p + 3 <= Len(html)
    /\ html[p + 1] \in Quotes
    /\ html[p + 2] \notin Quotes
    /\ \E q \in (p + 3)..Len(html) : html[q] \in Quotes

\* get_player_iframe_src(vsrc_url) on the page html (lines 110-120): the
\* leftmost tag that matches, with the last src= it can reach; group(1) runs
\* to the next quote.
get_player_iframe_src(vsrc_url, html) ==
    LET tags == {k \in 1..Len(html) : \E p \in 1..Len(html) : IframeMatch(html, k, p)}
    IN IF tags = {} THEN None
       ELSE LET k == CHOOSE t \in tags : \A u \in tags : t <= u
                ps == {p \in 1..Len(html) : IframeMatch(html, k, p)}
                p == CHOOSE x \in ps : \A y \in ps : x >= y
                qs == {q \in (p + 3)..Len(html) : html[q] \in Quotes}
                q == CHOOSE x \in qs : \A y \in qs : x <= y
                src == SubSeq(html, p + 2, q - 1)
            IN IF StartsWith(src, <<"/", "/">>) THEN <<"https", ":">> \o src
               ELSE IF src[1] = "/" THEN urljoin(vsrc_url, src)
               ELSE src

\* The request of get_player_iframe_src ends (lines 109-120), then lines
\* 821-825: it raises (connection error, timeout), or no iframe is found
\* (404), or capture_first_m3u8(iframe_src, retries=3) is called.
GmIframeReturn(i) ==
    /\ gmPc[i] = "iframe"
    /\ \/ /\ GmUnhandled(i)
          /\ UNCHANGED cpPc
       \/ \E html \in EmbedPages :
             LET iframe_src == get_player_iframe_src(gmEmbed[i], html)
             IN IF iframe_src = None
                THEN /\ GmReturn(i, 404, <<>>)
                     /\ UNCHANGED cpPc
                ELSE /\ gmIframe' = Upd(gmIframe, i, iframe_src)
                     /\ gmEmbed' = Upd(gmEmbed, i, <<>>)
                     /\ gmStages' = Upd(gmStages, i, Append(gmStages[i], "capture"))
                     /\ gmPc' = Upd(gmPc, i, "capture")
                     /\ cpPc' = Upd(cpPc, i, "loop")
                     /\ UNCHANGED <<gmStatus, gmBody, gmTitle, gmSeason, gmEpisode, gmType>>
    /\ UNCHANGED <<cpAttempt, cpCaptured, cpArmed, cpPw, cpBrowser, cpContext, cpPage,
                   cpSel, cpClicked, cpPolls, cpExc, cpResult, cpSeen, cpMissed, cpMatched,
                   cpSessions, cpEverMatched>>
    /\ UNCHANGED <<bmVars, rwVars, gvVars, relayVars>>

\* Lines 825-830: first_m3u8 = capture_first_m3u8(...) has returned;
\* if not first_m3u8: return "", 404; otherwise get_best_variant(first_m3u8)
\* issues its request (line 179, timeout=REQUEST_TIMEOUT).
GmAfterCapture(i) ==
    /\ gmPc[i] = "capture"
    /\ cpPc[i] = "returned"
    /\ IF cpResult[i] = None
       THEN GmReturn(i, 404, <<>>)
       ELSE /\ gmPc' = Upd(gmPc, i, "variant")
            /\ gmStages' = Upd(gmStages, i, Append(gmStages[i], "variant"))
            /\ UNCHANGED <<gmStatus, gmBody, gmLocals>>
    /\ UNCHANGED <<bmVars, rwVars, gvVars, cpVars, relayVars>>

\* capture_first_m3u8 raised: nothing in get_m3u8 catches it.
GmCaptureRaised(i) ==
    /\ gmPc[i] = "capture"
    /\ cpPc[i] = "raised"
    /\ GmUnhandled(i)
    /\ UNCHANGED <<bmVars, rwVars, gvVars, cpVars, relayVars>>

\* The request of get_best_variant ends: final_m3u8 is returned (200), or
\* the request raises.
GmVariant(i) ==
    /\ gmPc[i] = "variant"
    /\ \/ \E body \in CapturedManifests :
             GmReturn(i, 200, get_best_variant(cpResult[i], body))
       \/ GmUnhandled(i)
    /\ UNCHANGED <<bmVars, rwVars, gvVars, cpVars, relayVars>>

CaptureStep(i) ==
    \/ CpLoop(i) \/ CpEnter(i) \/ CpLaunch(i) \/ CpNewContext(i) \/ CpNewPage(i)
    \/ CpArm(i) \/ ObserveRequest(i) \/ CpGoto(i) \/ CpGotoExcept(i) \/ CpQuery(i) \/ CpClick(i)
    \/ CpIfNotClicked(i) \/ CpFallback(i) \/ CpPoll(i) \/ CpWait(i) \/ CpContextClose(i)
    \/ CpBrowserClose(i) \/ CpCheck(i) \/ CpExit(i)
    \/ GmAfterCapture(i) \/ GmCaptureRaised(i) \/ GmVariant(i)

InitCapture == BmIdle /\ RwIdle /\ GvIdle /\ CpInit({1}) /\ RelayInit

NextCapture == \E i \in Invocations : CaptureStep(i)

SpecCapture == InitCapture /\ [][NextCapture]_vars

\* Two /get_m3u8 requests served by two threads, both at line 825.
InitPair == BmIdle /\ RwIdle /\ GvIdle /\ CpInit({1, 2}) /\ RelayInit

SpecPair == InitPair /\ [][NextCapture]_vars

(***************************************************************************)
(* SpecResolve: one /get_m3u8 request from its arrival (app.py 780-834).   *)
(***************************************************************************)
InitResolve ==
    /\ BmIdle /\ RwIdle /\ GvIdle /\ RelayInit
    /\ cpPc = [i \in Invocations |-> "idle"]
    /\ cpAttempt = [i \in Invocations |-> 0]
    /\ cpCaptured = [i \in Invocations |-> None]
    /\ cpArmed = [i \in Invocations |-> FALSE]
    /\ cpPw = [i \in Invocations |-> FALSE]
    /\ cpBrowser = [i \in Invocations |-> FALSE]
    /\ cpContext = [i \in Invocations |-> FALSE]
    /\ cpPage = [i \in Invocations |-> FALSE]
    /\ cpSel = [i \in Invocations |-> 0]
    /\ cpClicked = [i \in Invocations |-> FALSE]
    /\ cpPolls = [i \in Invocations |-> 0]
    /\ cpExc = [i \in Invocations |-> FALSE]
    /\ cpResult = [i \in Invocations |-> None]
    /\ cpSeen = [i \in Invocations |-> <<>>]
    /\ cpSessions = [i \in Invocations |-> 0]
    /\ cpEverMatched = [i \in Invocations |-> FALSE]
    /\ cpMissed = [i \in Invocations |-> FALSE]
    /\ cpMatched = [i \in Invocations |-> FALSE]
    /\ gmPc = [i \in Invocations |-> IF i = 1 THEN "begin" ELSE "idle"]
    /\ gmStatus = [i \in Invocations |-> 0]
    /\ gmBody = [i \in Invocations |-> <<>>]
    /\ gmTitle = [i \in Invocations |-> <<>>]
    /\ gmSeason = [i \in Invocations |-> <<>>]
    /\ gmEpisode = [i \in Invocations |-> <<>>]
    /\ gmType = [i \in Invocations |-> <<>>]
    /\ gmEmbed = [i \in Invocations |-> <<>>]
    /\ gmIframe = [i \in Invocations |-> <<>>]
    /\ gmStages = [i \in Invocations |-> <<>>]

ResolveStep(i) ==
    \/ GmBegin(i) \/ GmSearchReturn(i) \/ GmExternalReturn(i) \/ GmIframeReturn(i)
    \/ CaptureStep(i)

NextResolve == \E i \in Invocations : ResolveStep(i)

SpecResolve == InitResolve /\ [][NextResolve]_vars

\* The steps of a request that are sure to happen when they can: the local
\* steps, and the end of every wait that has a timeout.  The wait of line 807
\* has none, and the requests of a page are up to the page.
GmFairStep(i) ==
    \/ GmBegin(i) \/ GmSearchReturn(i) \/ GmIframeReturn(i)
    \/ CpLoop(i) \/ CpEnter(i) \/ CpLaunch(i) \/ CpNewContext(i) \/ CpNewPage(i)
    \/ CpArm(i) \/ CpGoto(i) \/ CpGotoExcept(i) \/ CpQuery(i) \/ CpClick(i)
    \/ CpIfNotClicked(i) \/ CpFallback(i) \/ CpPoll(i) \/ CpWait(i) \/ CpContextClose(i)
    \/ CpBrowserClose(i) \/ CpCheck(i) \/ CpExit(i)
    \/ GmAfterCapture(i) \/ GmCaptureRaised(i) \/ GmVariant(i)

SpecResolveFair == SpecResolve /\ \A i \in Invocations : WF_vars(GmFairStep(i))

(***************************************************************************)
(* /proxy_playlist (app.py 266-285), /segment (287-302), fetch_bytes       *)
(* (237-240).  Requests run in threads: a handler is a sequence of steps   *)
(* that other requests' steps interleave with.  The locals now and         *)
(* pl_bytes of a handler that has returned are reset.                      *)
(***************************************************************************)
CACHE_TTL == 5

BADBYTE == "xff"

\* The playlists the origin can serve (r.content).
UpstreamBytes ==
    { <<"#", "E", NL, "s", ".ts">>,
      <<"#", "E", NL, BADBYTE, "t", ".ts", NL>> }

\* bytes.decode('utf-8', errors='ignore')
IsValidByte(c) == c # BADBYTE
decode(bytes) == SelectSeq(bytes, IsValidByte)

MissingUrl == <<"Missing url param">>
FetchFailed == <<"Failed to fetch playlist">>

\* The clock advances.
Tick ==
    /\ clock < MaxClock
    /\ clock' = clock + 1
    /\ UNCHANGED <<ppVars, sgVars>>
    /\ UNCHANGED <<bmVars, rwVars, gvVars, cpVars, gmVars>>

\* Lines 268-272: url = request.args.get("url"); 400 when missing; now = time.time()
PpBegin(r) ==
    /\ ppPc[r] \in {"idle", "done"}
    /\ ppStarted < MaxProxyRequests
    /\ ppStarted' = ppStarted + 1
    /\ \E url \in Urls \cup {<<>>} :
          /\ ppUrl' = Upd(ppUrl, r, url)
          /\ IF url = <<>>
             THEN /\ ppStatus' = Upd(ppStatus, r, 400)
                  /\ ppBody' = Upd(ppBody, r, MissingUrl)
                  /\ ppPc' = Upd(ppPc, r, "done")
                  /\ ppNow' = Upd(ppNow, r, 0)
             ELSE /\ ppStatus' = Upd(ppStatus, r, 0)
                  /\ ppBody' = Upd(ppBody, r, <<>>)
                  /\ ppPc' = Upd(ppPc, r, "lookup")
                  /\ ppNow' = Upd(ppNow, r, clock)
    /\ ppBytes' = Upd(ppBytes, r, <<>>)
    /\ ppHit' = Upd(ppHit, r, FALSE)
    /\ UNCHANGED <<cache, ppIssued, ppFetchNo, cacheFetchNo, clock, sgVars>>
    /\ UNCHANGED <<bmVars, rwVars, gvVars, cpVars, gmVars>>

\* Lines 273-274: cached = _playlist_cache.get(url);
\* cached and now - cached['ts'] < CACHE_TTL
IsFreshInclusive(url, now) ==
    url \in DOMAIN cache /\ now - cache[url].ts <= CACHE_TTL

IsFresh(url, now) ==
    url \in DOMAIN cache /\ now - cache[url].ts < CACHE_TTL

\* _playlist_cache[url] = entry
CachePut(url, entry) ==
    [u \in DOMAIN cache \cup {url} |-> IF u = url THEN entry ELSE cache[u]]

\* Lines 273-278: cached = _playlist_cache.get(url); serve it when fresh,
\* otherwise issue the upstream request of fetch_bytes(url).
PpLookup(r) ==
    /\ ppPc[r] = "lookup"
    /\ IF IsFresh(ppUrl[r], ppNow[r])
       THEN /\ ppStatus' = Upd(ppStatus, r, 200)
            /\ ppBody' = Upd(ppBody, r, cache[ppUrl[r]].data)
            /\ ppPc' = Upd(ppPc, r, "done")
            /\ ppNow' = Upd(ppNow, r, 0)
            /\ ppHit' = Upd(ppHit, r, TRUE)
            /\ UNCHANGED <<ppIssued, ppFetchNo>>
       ELSE /\ ppPc' = Upd(ppPc, r, "fetching")
            /\ ppIssued' = ppIssued + 1
            /\ ppFetchNo' = Upd(ppFetchNo, r, ppIssued + 1)
            /\ UNCHANGED <<ppStatus, ppBody, ppNow, ppHit>>
    /\ UNCHANGED <<cache, cacheFetchNo, ppUrl, ppBytes, ppStarted, clock, sgVars>>
    /\ UNCHANGED <<bmVars, rwVars, gvVars, cpVars, gmVars>>

\* fetch_bytes returns r.content
PpFetchOk(r) ==
    /\ ppPc[r] = "fetching"
    /\ \E content \in UpstreamBytes : ppBytes' = Upd(ppBytes, r, content)
    /\ ppPc' = Upd(ppPc, r, "store")
    /\ UNCHANGED <<cache, ppUrl, ppNow, ppStatus, ppBody, ppStarted, ppHit, ppIssued,
                   ppFetchNo, cacheFetchNo, clock, sgVars>>
    /\ UNCHANGED <<bmVars, rwVars, gvVars, cpVars, gmVars>>

\* A handler that drops the entry of a URL whose fetch failed.
PpFetchFailEvict(r) ==
    /\ ppPc[r] = "fetching"
    /\ ppStatus' = Upd(ppStatus, r, 502)
    /\ ppBody' = Upd(ppBody, r, FetchFailed)
    /\ ppPc' = Upd(ppPc, r, "done")
    /\ ppNow' = Upd(ppNow, r, 0)
    /\ ppFetchNo' = Upd(ppFetchNo, r, 0)
    /\ cache' = [u \in DOMAIN cache \ {ppUrl[r]} |-> cache[u]]
    /\ cacheFetchNo' = [u \in DOMAIN cache \ {ppUrl[r]} |-> cacheFetchNo[u]]
    /\ UNCHANGED <<ppIssued, ppUrl, ppBytes, ppStarted, ppHit, clock, sgVars>>
    /\ UNCHANGED <<bmVars, rwVars, gvVars, cpVars, gmVars>>

\* fetch_bytes raises (connection error, timeout, raise_for_status): 502
PpFetchFail(r) ==
    /\ ppPc[r] = "fetching"
    /\ ppStatus' = Upd(ppStatus, r, 502)
    /\ ppBody' = Upd(ppBody, r, FetchFailed)
    /\ ppPc' = Upd(ppPc, r, "done")
    /\ ppNow' = Upd(ppNow, r, 0)
    /\ ppFetchNo' = Upd(ppFetchNo, r, 0)
    /\ UNCHANGED <<cache, cacheFetchNo, ppIssued, ppUrl, ppBytes, ppStarted, ppHit, clock,
                   sgVars>>
    /\ UNCHANGED <<bmVars, rwVars, gvVars, cpVars, gmVars>>

\* Lines 282-285: decode, rewrite, _playlist_cache[url] = {data, ts: now}, respond
PpStore(r) ==
    /\ ppPc[r] = "store"
    /\ LET rewritten == rewrite_playlist(ppUrl[r], decode(ppBytes[r]))
       IN /\ cache' = CachePut(ppUrl[r], [data |-> rewritten, ts |-> ppNow[r]])
          /\ cacheFetchNo' = [u \in DOMAIN cache \cup {ppUrl[r]} |->
                                 IF u = ppUrl[r] THEN ppFetchNo[r] ELSE cacheFetchNo[u]]
          /\ ppStatus' = Upd(ppStatus, r, 200)
          /\ ppBody' = Upd(ppBody, r, rewritten)
    /\ ppPc' = Upd(ppPc, r, "done")
    /\ ppNow' = Upd(ppNow, r, 0)
    /\ ppBytes' = Upd(ppBytes, r, <<>>)
    /\ ppFetchNo' = Upd(ppFetchNo, r, 0)
    /\ UNCHANGED <<ppUrl, ppStarted, ppHit, ppIssued, clock, sgVars>>
    /\ UNCHANGED <<bmVars, rwVars, gvVars, cpVars, gmVars>>

ProxyStep(r) ==
    \/ PpBegin(r) \/ PpLookup(r) \/ PpFetchOk(r) \/ PpFetchFail(r) \/ PpStore(r)

InitCache == BmIdle /\ RwIdle /\ GvIdle /\ CpIdle /\ RelayInit

NextCache == Tick \/ \E r \in Slots : ProxyStep(r)

SpecCache == InitCache /\ [][NextCache]_vars

MissingU == <<"Missing u param">>
SegmentFailed == <<"Failed to fetch remote segment">>
FetchError == <<"exception">>

\* Values of the query argument u, as request.args.get returns them.
SegmentArgs ==
    { PlaylistUrl,
      <<"http", ":", "/", "/", "c", "/", "s", "+", "1", ".ts">>,
      <<"http", ":", "/", "/", "c", "/", "r", "%", "2", "F", ".ts">> }

\* Bodies the origin can serve for a segment (r.content).
SegmentBytes == { <<>>, <<"G", "a">>, <<"x", "G", "b", "c">> }

\* Lines 289-295: u = request.args.get("u"); 400 when missing;
\* url = unquote_plus(u); the upstream request of fetch_bytes(url) is issued.
SgBegin ==
    /\ sgPc \in {"idle", "done"}
    /\ sgStarted < MaxSegmentRequests
    /\ sgStarted' = sgStarted + 1
    /\ sgLength' = <<>>
    /\ sgFetched' = <<>>
    /\ \E u \in SegmentArgs \cup {<<>>} :
          IF u = <<>>
          THEN /\ sgStatus' = 400
               /\ sgBody' = MissingU
               /\ sgUrl' = <<>>
               /\ sgFetches' = 0
               /\ sgPc' = "done"
          ELSE /\ sgStatus' = 0
               /\ sgBody' = <<>>
               /\ sgUrl' = unquote_plus(u)
               /\ sgFetches' = 1
               /\ sgPc' = "fetching"
    /\ UNCHANGED <<clock, ppVars>>
    /\ UNCHANGED <<bmVars, rwVars, gvVars, cpVars, gmVars>>

\* fetch_bytes returns: Response(remote_bytes), Content-Length = str(len(remote_bytes))
SgFetchOk ==
    /\ sgPc = "fetching"
    /\ \E content \in SegmentBytes :
          /\ sgFetched' = content
          /\ sgBody' = content
          /\ sgLength' = IntToStr(Len(content))
    /\ sgStatus' = 200
    /\ sgPc' = "done"
    /\ UNCHANGED <<sgUrl, sgFetches, sgStarted, clock, ppVars>>
    /\ UNCHANGED <<bmVars, rwVars, gvVars, cpVars, gmVars>>

\* A handler that asks the origin a second time before giving up.
SgFetchFailRetry ==
    /\ sgPc = "fetching"
    /\ IF sgFetches < 2
       THEN /\ sgFetches' = sgFetches + 1
            /\ UNCHANGED <<sgPc, sgStatus, sgBody, sgFetched>>
       ELSE /\ sgFetched' = FetchError
            /\ sgStatus' = 502
            /\ sgBody' = SegmentFailed
            /\ sgPc' = "done"
            /\ UNCHANGED sgFetches
    /\ UNCHANGED <<sgUrl, sgLength, sgStarted, clock, ppVars>>
    /\ UNCHANGED <<bmVars, rwVars, gvVars, cpVars, gmVars>>

\* fetch_bytes raises: return "Failed to fetch remote segment: ...", 502
SgFetchFail ==
    /\ sgPc = "fetching"
    /\ sgFetched' = FetchError
    /\ sgStatus' = 502
    /\ sgBody' = SegmentFailed
    /\ sgPc' = "done"
    /\ UNCHANGED <<sgUrl, sgLength, sgFetches, sgStarted, clock, ppVars>>
    /\ UNCHANGED <<bmVars, rwVars, gvVars, cpVars, gmVars>>

SegmentStep == SgBegin \/ SgFetchOk \/ SgFetchFail

InitSegment == BmIdle /\ RwIdle /\ GvIdle /\ CpIdle /\ RelayInit

NextSegment == Tick \/ ProxyStep(1) \/ SegmentStep

SpecSegment == InitSegment /\ [][NextSegment]_vars

(***************************************************************************)
(* Properties of get_best_match.                                           *)
(***************************************************************************)
C11_Score(i) == token_sort_ratio(bmTitle, NameOf(bmResults[i]))

\* C11: get_best_match returns a candidate only when the best score is
\* strictly greater than 60, and then a candidate no other candidate
\* outscores; with the best score at or below 60, or no candidate, it
\* returns None.
C11_ThresholdMatch ==
    bmPc = "done" =>
        IF \E i \in 1..Len(bmResults) :
              C11_Score(i).num > MatchThreshold * C11_Score(i).den
        THEN \E i \in 1..Len(bmResults) :
                /\ bmOut = bmResults[i]
                /\ C11_Score(i).num > MatchThreshold * C11_Score(i).den
                /\ \A j \in 1..Len(bmResults) :
                      C11_Score(j).num * C11_Score(i).den <= C11_Score(i).num * C11_Score(j).den
        ELSE bmOut = NoneDict

\* The best candidate scores exactly 60 and is not returned.
C11_Witness ==
    /\ bmPc = "done"
    /\ Len(bmResults) = 2
    /\ \E i \in 1..2 : C11_Score(i).num = MatchThreshold * C11_Score(i).den
    /\ \A i \in 1..2 : C11_Score(i).num <= MatchThreshold * C11_Score(i).den
    /\ bmOut = NoneDict

(***************************************************************************)
(* Properties of rewrite_playlist.                                         *)
(***************************************************************************)
\* A line that is blank, or whose first non-space symbol is "#".
C7_DirectiveOrBlank(line) ==
    \/ \A i \in 1..Len(line) : line[i] = SP
    \/ \E i \in 1..Len(line) : line[i] = "#" /\ \A j \in 1..(i - 1) : line[j] = SP

C7_SegmentsBefore(lines, i) ==
    Cardinality({j \in 1..(i - 1) : ~C7_DirectiveOrBlank(lines[j])})

\* C7: rewrite_playlist keeps the number and order of the lines; a blank or
\* "#" line (after trimming) is output unchanged; every other line becomes
\* /segment?u=<u>&i=<k> where <u> decodes to the (trimmed) line resolved
\* against the manifest URL and <k> is the number of segment lines before it.
C7_RewriteShape ==
    rwPc = "done" =>
        /\ Len(rwNewLines) = Len(rwLines)
        /\ rwOut = JoinNl(rwNewLines)
        /\ \A i \in 1..Len(rwLines) :
              LET line == rwLines[i]
                  out  == rwNewLines[i]
                  a    == IndexFrom(out, SEQARG, 1)
              IN IF C7_DirectiveOrBlank(line) THEN out = line
                 ELSE /\ out[1] = SEGMENT
                      /\ a > 1 /\ a < Len(out)
                      /\ unquote_plus(SubSeq(out, 2, a - 1)) = urljoin(rwUrl, strip(line))
                      /\ \A j \in (a + 1)..Len(out) : IsDigit(out[j])
                      /\ StrToInt(SubSeq(out, a + 1, Len(out))) = C7_SegmentsBefore(rwLines, i)

C7_Witness ==
    /\ rwPc = "done"
    /\ rwLines = << <<SP, "#", "E">>, <<SP, "a", "+", "b", SP>>, <<"/", "r", "%", "2", "F">> >>
    /\ rwNewLines[1] = <<SP, "#", "E">>
    /\ rwNewLines[3][Len(rwNewLines[3])] = "1"

(***************************************************************************)
(* Properties of get_best_variant.                                         *)
(***************************************************************************)
C8_Pairs == FindVariants(SplitNl(gvBody), 1, 1)

\* C8: with at least one (stream-info, playlist-url) pair, the result is the
\* URL of the pair with the numerically largest vertical resolution (0 when
\* the pair declares none), the first such pair in manifest order.
C8_BestVariant ==
    (gvPc = "done" /\ C8_Pairs # <<>>) =>
        \E i \in 1..Len(C8_Pairs) :
            /\ \A j \in 1..Len(C8_Pairs) : VariantKey(C8_Pairs[j]) <= VariantKey(C8_Pairs[i])
            /\ \A j \in 1..(i - 1) : VariantKey(C8_Pairs[j]) < VariantKey(C8_Pairs[i])
            /\ gvOut = urljoin(gvUrl, C8_Pairs[i].url)

C8_Witness ==
    /\ gvPc = "done"
    /\ Len(C8_Pairs) = 2
    /\ VariantKey(C8_Pairs[1]) = 0
    /\ RES \notin Range(C8_Pairs[1].inf)
    /\ VariantKey(C8_Pairs[2]) = 0
    /\ C8_Pairs[1].url # C8_Pairs[2].url
    /\ gvOut = urljoin(gvUrl, C8_Pairs[1].url)

\* No line holds the tag followed by more text while the next line holds
\* text ending in ".m3u8".
C9_NoPair ==
    LET lines == SplitNl(gvBody)
    IN ~\E i \in 1..(Len(lines) - 1) :
          /\ \E k \in 1..(Len(lines[i]) - 1) : lines[i][k] = TAG
          /\ \E e \in 2..Len(lines[i + 1]) : lines[i + 1][e] = M3U8

\* C9: a manifest in which no pair is found (the empty body included) makes
\* get_best_variant return its input URL unchanged.
C9_NoVariantsFallback == (gvPc = "done" /\ C9_NoPair) => gvOut = gvUrl

C9_Witness ==
    /\ gvPc = "done"
    /\ C9_NoPair
    /\ TAG \in Range(gvBody)
    /\ M3U8 \in Range(gvBody)
    /\ gvOut = gvUrl

(***************************************************************************)
(* Properties of capture_first_m3u8 and of the end of get_m3u8.            *)
(***************************************************************************)
\* The first request of the session whose URL contains ".m3u8", or None.
FirstManifestSeen(i) ==
    LET hits == {k \in 1..Len(cpSeen[i]) : M3U8 \in Range(cpSeen[i][k])}
    IN IF hits = {} THEN None
       ELSE cpSeen[i][CHOOSE k \in hits : \A l \in hits : k <= l]

\* C2: within one capture session the captured URL is the first observed
\* request URL containing ".m3u8" (later matches leave it unchanged), and
\* that URL is the value returned.
C2_FirstCaptureWins ==
    \A i \in Invocations :
        /\ cpCaptured[i] = FirstManifestSeen(i)
        /\ (cpPc[i] = "returned" /\ cpResult[i] # None) => cpResult[i] = FirstManifestSeen(i)

C2_Witness ==
    /\ cpPc[1] = "returned"
    /\ Len(cpSeen[1]) = 2
    /\ M3U8 \in Range(cpSeen[1][1])
    /\ M3U8 \in Range(cpSeen[1][2])
    /\ cpSeen[1][1] # cpSeen[1][2]
    /\ cpResult[1] = cpSeen[1][1]

\* C3: an invocation opens at most 3 sessions and ends by returning a
\* captured URL or, with all attempts used, by returning None.
C3_ReturnsWithinRetries ==
    \A i \in Invocations :
        /\ cpSessions[i] <= Retries
        /\ cpAttempt[i] <= Retries
        /\ cpPc[i] \in {"returned", "raised"} =>
              /\ cpPc[i] = "returned"
              /\ cpResult[i] # None \/ cpAttempt[i] = Retries

\* C4: when an attempt has ended (the next one is about to start, or the
\* function has returned or raised) its browser, context and page are closed.
C4_SessionClosedAfterAttempt ==
    \A i \in Invocations :
        cpPc[i] \in {"idle", "loop", "enter", "returned", "raised"} =>
            ~cpBrowser[i] /\ ~cpContext[i] /\ ~cpPage[i] /\ ~cpPw[i]

C4_Witness ==
    /\ cpPc[1] = "raised"
    /\ cpAttempt[1] = 2
    /\ cpSessions[1] = 2
    /\ cpSeen[1] # <<>>
    /\ ~cpBrowser[1] /\ ~cpContext[1]

SessionClosed(i) == ~cpPw[i] /\ ~cpBrowser[i] /\ ~cpContext[i] /\ ~cpPage[i]

\* C14: with two invocations running at once, the slot of each holds only a
\* request observed in its own session (never one observed in the other's),
\* the same for the value it returns, and an invocation that has returned or
\* raised has no session left.
C14_IsolatedSessions ==
    \A i \in Invocations :
        /\ \A j \in Invocations \ {i} :
              /\ cpCaptured[i] \notin Range(cpSeen[j])
              /\ cpResult[i] \notin Range(cpSeen[j])
        /\ cpCaptured[i] # None => cpCaptured[i] \in Range(cpSeen[i])
        /\ cpResult[i] # None => cpResult[i] \in Range(cpSeen[i])
        /\ cpPc[i] \in {"returned", "raised"} => SessionClosed(i)

\* The first invocation has returned its own manifest and closed its session
\* while the second, in its second attempt, holds an open session that has
\* captured the second page's manifest.
C14_Witness ==
    /\ cpPc[1] = "returned"
    /\ cpResult[1] = PairRequestUrl[1]
    /\ SessionClosed(1)
    /\ cpAttempt[2] = 2
    /\ cpBrowser[2] /\ cpPage[2]
    /\ cpCaptured[2] = PairRequestUrl[2]

\* C15: a failed navigation is absorbed: from the except clause the attempt
\* goes on to the selector loop with its session, observer and slot as they
\* were; teardown is reached only through the polling loop and the polling
\* loop only through the interaction step; and the attempt hands back the
\* first manifest request it observed, whenever that was.
C15_NavErrorAbsorbed ==
    /\ [](\A i \in Invocations :
            /\ cpPc[i] = "nav_error" => cpPage[i] /\ cpArmed[i] /\ ~cpExc[i]
            /\ (cpPc[i] = "exit" /\ ~cpExc[i]) => cpResult[i] = FirstManifestSeen(i))
    /\ [][\A i \in Invocations :
            /\ (cpPc[i] = "nav_error" /\ cpPc'[i] # "nav_error") =>
                  /\ cpPc'[i] = "query"
                  /\ cpSel'[i] = 1
                  /\ cpAttempt'[i] = cpAttempt[i]
                  /\ cpCaptured'[i] = cpCaptured[i]
                  /\ cpSeen'[i] = cpSeen[i]
                  /\ cpPage'[i] /\ cpArmed'[i] /\ ~cpExc'[i]
            /\ (cpPc'[i] = "if_clicked" /\ cpPc[i] # "if_clicked") =>
                  cpPc[i] \in {"query", "click"}
            /\ (cpPc'[i] = "poll" /\ cpPc[i] \notin {"poll", "wait"}) =>
                  cpPc[i] \in {"if_clicked", "fallback"}
            /\ (cpPc'[i] = "ctx_close" /\ cpPc[i] # "ctx_close") => cpPc[i] = "poll"
            /\ (cpPc'[i] = "check" /\ cpPc[i] # "check") => cpPc[i] = "br_close"]_vars

\* The navigation of the second attempt failed after the page had asked for
\* a manifest, which the slot holds.
C15_Witness ==
    /\ cpPc[1] = "nav_error"
    /\ cpAttempt[1] = 2
    /\ cpCaptured[1] # None
    /\ cpCaptured[1] = cpSeen[1][1]

\* C16: the observer is on the page whenever the function is in or after the
\* navigation call, so no request of the page goes by unobserved, and a
\* session that saw a manifest request has a URL in its slot.
C16_ObserverBeforeNavigation ==
    \A i \in Invocations :
        /\ ~cpMissed[i]
        /\ cpPc[i] \in InPageCall \cup {"nav_error", "if_clicked", "poll"} => cpArmed[i]
        /\ (\E k \in 1..Len(cpSeen[i]) : M3U8 \in Range(cpSeen[i][k])) => cpCaptured[i] # None

\* A manifest request issued while page.goto is still running is in the slot.
C16_Witness ==
    /\ cpPc[1] = "goto"
    /\ Len(cpSeen[1]) = 2
    /\ M3U8 \notin Range(cpSeen[1][1])
    /\ cpCaptured[1] = cpSeen[1][2]

\* C17: once a selector of the loop has matched an element, that element is
\* clicked and the interaction is over: no further selector is queried and
\* the fallback click at (640, 360) is not performed; the fallback click is
\* performed only when no selector matched.
C17_FirstMatchElseFallback ==
    \A i \in Invocations :
        /\ cpPc[i] = "query" => ~cpMatched[i]
        /\ cpPc[i] = "fallback" => ~cpMatched[i] /\ ~cpClicked[i]

\* C18: the polling loop makes at most 30 waits; a wait starts only from a
\* check that found the slot empty with fewer than 30 waits made, and a check
\* that finds a URL in the slot, or 30 waits made, leaves the loop.
C18_PollingBound ==
    /\ [](\A i \in Invocations : cpPolls[i] <= PollIterations)
    /\ [][\A i \in Invocations :
            /\ (cpPc'[i] = "wait" /\ cpPc[i] # "wait") =>
                  /\ cpPc[i] = "poll"
                  /\ cpCaptured[i] = None
                  /\ cpPolls[i] < PollIterations
            /\ (cpPc[i] = "poll" /\ cpPc'[i] # "poll") =>
                  IF cpCaptured[i] # None \/ cpPolls[i] = PollIterations
                  THEN cpPc'[i] = "ctx_close"
                  ELSE cpPc'[i] = "wait"
            /\ (cpPc[i] = "wait" /\ cpPc'[i] = "poll") => cpPolls'[i] = cpPolls[i] + 1]_vars

\* The check after the 30th wait, in a session that saw a request but no
\* manifest.
C18_Witness ==
    /\ cpPc[1] = "poll"
    /\ cpPolls[1] = PollIterations
    /\ cpSeen[1] # <<>>
    /\ cpCaptured[1] = None

\* C19: an attempt starts with no browser, context, page or observer left
\* from an earlier one, with an empty slot, and only when no earlier attempt
\* saw a manifest request; a returned URL was observed in the last session
\* opened; the sessions opened are as many as the attempts made, 3 when None
\* is returned.
C19_FreshSessionPerAttempt ==
    \A i \in Invocations :
        /\ cpSessions[i] <= cpAttempt[i]
        /\ cpPc[i] \in {"loop", "enter", "launch"} =>
              ~cpBrowser[i] /\ ~cpContext[i] /\ ~cpPage[i] /\ ~cpArmed[i]
        /\ cpPc[i] \in {"loop", "enter", "launch", "new_context", "new_page", "arm"} =>
              ~cpEverMatched[i]
        /\ (cpPc[i] = "goto" /\ cpSeen[i] = <<>>) => cpCaptured[i] = None
        /\ (cpPc[i] = "returned" /\ cpResult[i] # None) =>
              /\ cpResult[i] \in Range(cpSeen[i])
              /\ cpSessions[i] = cpAttempt[i]
        /\ (cpPc[i] = "returned" /\ cpResult[i] = None) =>
              /\ cpSessions[i] = Retries
              /\ cpAttempt[i] = Retries

\* The third attempt returns a URL its own session observed.
C19_Witness ==
    /\ cpPc[1] = "returned"
    /\ cpAttempt[1] = Retries
    /\ cpSessions[1] = Retries
    /\ cpResult[1] # None
    /\ Len(cpSeen[1]) = 2
    /\ cpResult[1] = cpSeen[1][2]

(***************************************************************************)
(* Properties of /get_m3u8.                                                *)
(***************************************************************************)
\* C12: a request whose catalog lookup fails (the catalog cannot be reached
\* or answers with something malformed) ends as a resolution failure: it is
\* answered 404 with an empty body, never by an unhandled exception (500).
C12_CatalogFailureIsResolutionFailure ==
    \A i \in Invocations :
        (gmPc[i] = "done" /\ gmStages[i] = <<"match">>)
            => (gmStatus[i] = 404 /\ gmBody[i] = <<>>)

\* C13: every outbound wait has a timeout, so every request that has
\* arrived is eventually answered.
C13_RequestEventuallyAnswered ==
    \A i \in Invocations : (gmPc[i] # "idle") ~> (gmPc[i] = "done")

\* C20: the stages run in the order match, external, iframe, capture,
\* variant; a request that does not go through all five is answered with a
\* failure status and an empty body, and a stage once started
\* is never started again.
C20_StagesInOrderFailureEmpty ==
    \A i \in Invocations :
        /\ Len(gmStages[i]) <= Len(Stages)
        /\ gmStages[i] = SubSeq(Stages, 1, Len(gmStages[i]))
        /\ gmPc[i] = "done" =>
              \/ gmStatus[i] = 200 /\ gmStages[i] = Stages
              \/ gmStatus[i] # 200 /\ gmBody[i] = <<>>

(***************************************************************************)
(* Properties of /proxy_playlist and /segment.                             *)
(***************************************************************************)
InFlight(url) == {r \in Slots : ppPc[r] = "fetching" /\ ppUrl[r] = url}

\* C1: at most one upstream fetch is in flight per cache key: of two
\* concurrent requests for the same URL the later one waits for the first
\* one's fetch instead of fetching again.
C1_SingleFlight == \A url \in Urls : Cardinality(InFlight(url)) <= 1

\* C6: a request whose URL has a cache entry with now - ts < 5 is answered
\* with the cached text, without an upstream fetch and without changing the
\* cache; every other request with a URL issues an upstream fetch.
C6_FreshHitElseFetch ==
    [][\A r \in Slots :
          (ppPc[r] = "lookup" /\ ppPc'[r] # "lookup") =>
              IF ppUrl[r] \in DOMAIN cache /\ ppNow[r] - cache[ppUrl[r]].ts < 5
              THEN /\ ppPc'[r] = "done"
                   /\ ppStatus'[r] = 200
                   /\ ppBody'[r] = cache[ppUrl[r]].data
                   /\ cache' = cache
              ELSE ppPc'[r] = "fetching"]_vars

C6_Witness ==
    \E r \in Slots :
        /\ ppPc[r] = "done"
        /\ ppHit[r]
        /\ ppStatus[r] = 200
        /\ ppBody[r] = cache[ppUrl[r]].data
        /\ clock - cache[ppUrl[r]].ts = 4

\* C10: a /segment request with a URL asks the origin exactly once and does
\* not touch the playlist cache; a failed fetch is answered 502, a successful
\* one with the fetched bytes and their length as Content-Length.
C10_SegmentRelay ==
    /\ [](/\ sgPc = "fetching" => sgFetches = 1
          /\ (sgPc = "done" /\ sgStatus # 400) =>
                /\ sgFetches = 1
                /\ IF sgFetched = FetchError
                   THEN sgStatus = 502
                   ELSE /\ sgStatus = 200
                        /\ sgBody = sgFetched
                        /\ sgLength = IntToStr(Len(sgFetched)))
    /\ [][(sgPc' # sgPc \/ sgStarted' # sgStarted) => cache' = cache]_vars

C10_Witness ==
    /\ sgPc = "done"
    /\ sgStatus = 200
    /\ sgUrl \in DOMAIN cache
    /\ sgBody = <<"x", "G", "b", "c">>
    /\ sgLength = <<"4">>
    /\ sgBody # cache[sgUrl].data

\* C21: the step that stores an entry after a cache miss stamps it with the
\* time that is current at the store, so right after the store the entry is
\* younger than the TTL (a request arriving then is a hit), however long the
\* upstream fetch took.
C21_StoredWithCurrentTimestamp ==
    [][\A r \in Slots :
          (ppPc[r] = "store" /\ ppPc'[r] = "done") =>
              /\ cache'[ppUrl[r]].ts = clock'
              /\ clock' - cache'[ppUrl[r]].ts < CACHE_TTL]_vars

\* C22: an entry is served as long as now - ts is at most the TTL of 5
\* seconds, without an upstream fetch and without changing the cache; once
\* now - ts is greater than 5 it is not served, and the next successful
\* fetch replaces the whole entry, leaving the other keys alone.
C22_ServedUntilTtlExceeded ==
    [][\A r \in Slots :
          /\ (ppPc[r] = "lookup" /\ ppPc'[r] # "lookup" /\ ppUrl[r] \in DOMAIN cache) =>
                IF ppNow[r] - cache[ppUrl[r]].ts <= CACHE_TTL
                THEN /\ ppPc'[r] = "done"
                     /\ ppStatus'[r] = 200
                     /\ ppBody'[r] = cache[ppUrl[r]].data
                     /\ cache' = cache
                ELSE ppPc'[r] = "fetching"
          /\ (ppPc[r] = "store" /\ ppPc'[r] = "done") =>
                /\ cache'[ppUrl[r]].data = ppBody'[r]
                /\ DOMAIN cache'[ppUrl[r]] = {"data", "ts"}
                /\ \A u \in DOMAIN cache \ {ppUrl[r]} : cache'[u] = cache[u]]_vars

\* C23: whatever the interleaving of requests for the same URL, the
\* timestamp of its entry never decreases, and an entry is never replaced by
\* the result of a fetch issued before the fetch that produced it.
C23_EntryNeverOlder ==
    [][\A u \in DOMAIN cache :
          /\ u \in DOMAIN cache'
          /\ cache'[u].ts >= cache[u].ts
          /\ cacheFetchNo'[u] >= cacheFetchNo[u]]_vars

\* C24: a /proxy_playlist request that is answered 400 or 502 leaves the
\* cache as it was for every key: the only step that changes the cache is
\* the store of a request that is answered 200, and it changes one key.
C24_FailedRequestLeavesCache ==
    [][/\ \A r \in Slots :
             (ppPc[r] # "done" /\ ppPc'[r] = "done" /\ ppStatus'[r] \in {400, 502})
                 => cache' = cache
       /\ cache' # cache =>
             \E r \in Slots :
                 /\ ppPc[r] = "store"
                 /\ ppPc'[r] = "done"
                 /\ ppStatus'[r] = 200
                 /\ \A u \in DOMAIN cache \ {ppUrl[r]} :
                       u \in DOMAIN cache' /\ cache'[u] = cache[u]]_vars

\* A request has been answered 502 for a URL whose entry, stored five
\* seconds before that request began, is still there.
C24_Witness ==
    \E r \in Slots :
        /\ ppPc[r] = "done"
        /\ ppStatus[r] = 502
        /\ ppUrl[r] \in DOMAIN cache
        /\ cache[ppUrl[r]].ts = 0
        /\ clock = CACHE_TTL

====
